---------------------------- MODULE Spec2Model ----------------------------
(***************************************************************************)
(* A model of ohos-json-bignumber: the JSON parser (src/src/parse.rs), the  *)
(* JSON stringifier (src/src/stringify.rs) and the BigNumber decimal type   *)
(* (src/src/bignumber.rs).                                                  *)
(*                                                                         *)
(* Text is a sequence of characters, a character is its Unicode scalar     *)
(* value.  Arbitrary-precision integers are a sign and a sequence of       *)
(* decimal digits, so the integer boundaries of the parser (2^53, 2^63)    *)
(* are the program's own.                                                  *)
(***************************************************************************)
EXTENDS Integers, Sequences, FiniteSets, TLC

VARIABLES
    input,    \* the text handed to parse
    opts,     \* the Options record handed to parse
    parts,    \* the pieces the input text was put together from
    result,   \* what parse returned
    value,    \* the value handed to stringify
    output,   \* what stringify returned
    da, db, dc,  \* BigNumber operands
    dres,     \* the BigNumber the last arithmetic operation returned
    dcmp,     \* what compared_to returned
    pc        \* the operation that ran last, or what is ready for the first one

vars == <<input, opts, parts, result, value, output, da, db, dc, dres, dcmp, pc>>

----------------------------------------------------------------------------
(* Characters *)

ord ==
    (" " :> 32) @@ ("\n" :> 10) @@ ("\r" :> 13) @@ ("\t" :> 9) @@
    ("\"" :> 34) @@ ("\\" :> 92) @@ ("/" :> 47) @@
    ("+" :> 43) @@ ("," :> 44) @@ ("-" :> 45) @@ ("." :> 46) @@ (":" :> 58) @@
    ("0" :> 48) @@ ("1" :> 49) @@ ("2" :> 50) @@ ("3" :> 51) @@ ("4" :> 52) @@
    ("5" :> 53) @@ ("6" :> 54) @@ ("7" :> 55) @@ ("8" :> 56) @@ ("9" :> 57) @@
    ("A" :> 65) @@ ("B" :> 66) @@ ("C" :> 67) @@ ("D" :> 68) @@ ("E" :> 69) @@
    ("F" :> 70) @@ ("X" :> 88) @@
    ("[" :> 91) @@ ("]" :> 93) @@ ("{" :> 123) @@ ("}" :> 125) @@ ("_" :> 95) @@
    ("a" :> 97) @@ ("b" :> 98) @@ ("c" :> 99) @@ ("d" :> 100) @@ ("e" :> 101) @@
    ("f" :> 102) @@ ("k" :> 107) @@ ("l" :> 108) @@ ("n" :> 110) @@ ("o" :> 111) @@
    ("p" :> 112) @@ ("q" :> 113) @@ ("r" :> 114) @@ ("s" :> 115) @@ ("t" :> 116) @@
    ("u" :> 117) @@ ("x" :> 120)

\* The text whose characters are the one-character strings of s.
Txt(s) == [i \in 1..Len(s) |-> ord[s[i]]]

\* char::is_ascii_digit
IsAsciiDigit(c) == c \in 48..57

\* char::is_whitespace: the Unicode White_Space property
IsWhitespace(c) ==
    \/ c \in 9..13
    \/ c \in {32, 133, 160, 5760, 8232, 8233, 8239, 8287, 12288}
    \/ c \in 8192..8202

\* char::from_u32: a code is a char unless it is a surrogate or beyond U+10FFFF
IsUnicodeScalar(code) == code \in 0..55295 \/ code \in 57344..1114111

DigitOf(c) == c - 48
CharOfDigit(d) == d + 48

\* The text of a digit sequence.
DigitsText(ds) == [i \in 1..Len(ds) |-> CharOfDigit(ds[i])]

RECURSIVE Concat(_)
Concat(ss) == IF ss = <<>> THEN <<>> ELSE Head(ss) \o Concat(Tail(ss))

----------------------------------------------------------------------------
(* Arbitrary-precision integers: [neg, mag], mag the decimal digits, most   *)
(* significant first, without leading zeros; zero is <<0>> and never neg.   *)

StripZeros(ds) ==
    LET nz == {i \in 1..Len(ds) : ds[i] # 0}
    IN  IF nz = {} THEN <<0>>
        ELSE SubSeq(ds, CHOOSE i \in nz : \A j \in nz : i <= j, Len(ds))

IsZeroMag(m) == m = <<0>>

\* Compare two digit sequences of the same length, the first digit weighing most.
LexCmp(a, b) ==
    LET diff == {i \in 1..Len(a) : a[i] # b[i]}
        first == CHOOSE i \in diff : \A j \in diff : i <= j
    IN  IF diff = {} THEN 0 ELSE IF a[first] < b[first] THEN -1 ELSE 1

\* Compare two magnitudes: -1, 0 or 1.
MagCmp(a, b) ==
    IF Len(a) < Len(b) THEN -1
    ELSE IF Len(a) > Len(b) THEN 1
    ELSE LexCmp(a, b)

PadLeft(ds, n) == [i \in 1..(n - Len(ds)) |-> 0] \o ds

\* a + b over digit sequences of the same length: a carry enters position i
\* when a position further right overflows and every position between sums to 9
AddDigits(a, b) ==
    LET n == Len(a)
        carry(i) == \E j \in (i + 1)..n :
                        /\ a[j] + b[j] >= 10
                        /\ \A m \in (i + 1)..(j - 1) : a[m] + b[m] = 9
        c(i) == IF carry(i) THEN 1 ELSE 0
    IN  <<c(0)>> \o [i \in 1..n |-> (a[i] + b[i] + c(i)) % 10]

\* a - b for a >= b, same length: a borrow enters position i when a position
\* further right is short and every position between is level
SubDigits(a, b) ==
    LET n == Len(a)
        borrow(i) == \E j \in (i + 1)..n :
                        /\ a[j] < b[j]
                        /\ \A m \in (i + 1)..(j - 1) : a[m] = b[m]
        w(i) == IF borrow(i) THEN 1 ELSE 0
    IN  [i \in 1..n |-> (a[i] - b[i] - w(i) + 10) % 10]

MaxOf(x, y) == IF x >= y THEN x ELSE y

MagAdd(a, b) ==
    LET n == MaxOf(Len(a), Len(b))
    IN  StripZeros(AddDigits(PadLeft(a, n), PadLeft(b, n)))

\* a - b for a >= b
MagSub(a, b) ==
    LET n == Len(a)
    IN  StripZeros(SubDigits(a, PadLeft(b, n)))

MkBigInt(neg, mag) == [neg |-> neg /\ ~IsZeroMag(mag), mag |-> mag]

BigZero == [neg |-> FALSE, mag |-> <<0>>]

BigIsZero(x) == IsZeroMag(x.mag)

BigNeg(x) == MkBigInt(~x.neg, x.mag)

BigAdd(x, y) ==
    IF x.neg = y.neg THEN MkBigInt(x.neg, MagAdd(x.mag, y.mag))
    ELSE IF MagCmp(x.mag, y.mag) >= 0 THEN MkBigInt(x.neg, MagSub(x.mag, y.mag))
    ELSE MkBigInt(y.neg, MagSub(y.mag, x.mag))

BigCmp(x, y) ==
    IF x.neg /\ ~y.neg THEN -1
    ELSE IF ~x.neg /\ y.neg THEN 1
    ELSE IF x.neg THEN MagCmp(y.mag, x.mag)
    ELSE MagCmp(x.mag, y.mag)

\* x * 10^k, k >= 0
BigMulPow10(x, k) ==
    IF BigIsZero(x) THEN x
    ELSE [neg |-> x.neg, mag |-> x.mag \o [i \in 1..k |-> 0]]

\* A small integer as digits, and back.
RECURSIVE NatDigits(_)
NatDigits(n) == IF n < 10 THEN <<n>> ELSE Append(NatDigits(n \div 10), n % 10)

RECURSIVE DigitsNat(_)
DigitsNat(ds) == IF ds = <<>> THEN 0 ELSE 10 * DigitsNat(SubSeq(ds, 1, Len(ds) - 1)) + ds[Len(ds)]

BigOfInt(n) == IF n < 0 THEN MkBigInt(TRUE, NatDigits(-n)) ELSE MkBigInt(FALSE, NatDigits(n))
IntOfBig(x) == IF x.neg THEN -DigitsNat(x.mag) ELSE DigitsNat(x.mag)

----------------------------------------------------------------------------
(* The host value model: what the N-API environment creates and inspects.   *)

JsNull == [type |-> "Null"]
JsBoolean(b) == [type |-> "Boolean", b |-> b]
JsString(s) == [type |-> "String", s |-> s]
\* env.create_int64: a host number made from a 64-bit integer
JsInt64(i) == [type |-> "Number", made |-> "int64", int |-> i]
\* env.create_double: a host number made from a double
JsDouble(d) == [type |-> "Number", made |-> "double", dbl |-> d]
\* env.create_bigint_from_words
JsBigInt(i) == [type |-> "BigInt", int |-> i]
\* an instance of the BigNumber class wrapping a BigDecimal
JsBigNumber(d) == [type |-> "Object", class |-> "BigNumber", dec |-> d]
JsArray(es) == [type |-> "Object", class |-> "Array", elems |-> es]
\* an ordinary object: its own property keys in enumeration order, and their values
JsObject(ks, vs) == [type |-> "Object", class |-> "Object", keys |-> ks, vals |-> vs]

IsBigNumber(v) == v.type = "Object" /\ v.class = "BigNumber"
IsArray(v) == v.type = "Object" /\ v.class = "Array"
IsPlainObject(v) == v.type = "Object" /\ v.class = "Object"

CreateArray == JsArray(<<>>)
CreateObject == JsObject(<<>>, <<>>)

\* array.set(index, value) with index = the array's length
ArraySet(arr, v) == JsArray(Append(arr.elems, v))

KeyIndex(ks, k) == IF \E i \in 1..Len(ks) : ks[i] = k
                   THEN CHOOSE i \in 1..Len(ks) : ks[i] = k
                   ELSE 0

\* A key the host treats as an array index: the canonical decimal text of an
\* integer in 0 .. 2^32-2.
IsArrayIndex(k) ==
    /\ Len(k) >= 1
    /\ \A i \in 1..Len(k) : IsAsciiDigit(k[i])
    /\ (Len(k) > 1 => k[1] # ord["0"])
    /\ MagCmp([i \in 1..Len(k) |-> DigitOf(k[i])], <<4,2,9,4,9,6,7,2,9,4>>) <= 0

IndexKeyLess(k1, k2) ==
    MagCmp([i \in 1..Len(k1) |-> DigitOf(k1[i])], [i \in 1..Len(k2) |-> DigitOf(k2[i])]) < 0

InsertAt(s, i, x) == SubSeq(s, 1, i - 1) \o <<x>> \o SubSeq(s, i, Len(s))

\* set_named_property that drops an existing property and adds it anew, at
\* the end
SetNamedPropertyAtEnd(obj, k, v) ==
    LET keep == {i \in 1..Len(obj.keys) : obj.keys[i] # k}
        at(n) == CHOOSE i \in keep : Cardinality({j \in keep : j <= i}) = n
    IN  JsObject([n \in 1..Cardinality(keep) |-> obj.keys[at(n)]] \o <<k>>,
                 [n \in 1..Cardinality(keep) |-> obj.vals[at(n)]] \o <<v>>)

\* obj.set_named_property(key, value) on an ordinary host object.  An existing
\* property keeps its place and takes the new value.  A new property is
\* enumerated after the existing ones, except that array-index keys are
\* enumerated first, in ascending numeric order (the host's own-property order).
SetNamedProperty(obj, k, v) ==
    LET at == KeyIndex(obj.keys, k)
        nidx == Cardinality({i \in 1..Len(obj.keys) :
                    IsArrayIndex(obj.keys[i]) /\ IndexKeyLess(obj.keys[i], k)})
    IN  IF at # 0 THEN JsObject(obj.keys, [obj.vals EXCEPT ![at] = v])
        ELSE IF IsArrayIndex(k)
             THEN JsObject(InsertAt(obj.keys, nidx + 1, k), InsertAt(obj.vals, nidx + 1, v))
        ELSE JsObject(Append(obj.keys, k), Append(obj.vals, v))

\* obj.get_property_names()
GetPropertyNames(obj) == obj.keys

\* obj.get_property_unchecked(key)
GetProperty(obj, k) == obj.vals[KeyIndex(obj.keys, k)]

----------------------------------------------------------------------------
(* Number conversions of the standard library and of the big-number crates  *)

Ok(v) == [ok |-> TRUE, val |-> v]
Err(e) == [ok |-> FALSE, err |-> e]

AllDigits(s) == \A i \in 1..Len(s) : IsAsciiDigit(s[i])
TextDigits(s) == [i \in 1..Len(s) |-> DigitOf(s[i])]

I64MaxMag == <<9,2,2,3,3,7,2,0,3,6,8,5,4,7,7,5,8,0,7>>
I64MinMag == <<9,2,2,3,3,7,2,0,3,6,8,5,4,7,7,5,8,0,8>>

\* str::parse::<i64>: an optional sign, one or more digits, a value in range
ParseI64(s) ==
    LET signed == Len(s) >= 1 /\ s[1] \in {ord["-"], ord["+"]}
        neg == Len(s) >= 1 /\ s[1] = ord["-"]
        body == IF signed THEN Tail(s) ELSE s
        mag == StripZeros(TextDigits(body))
    IN  IF body = <<>> \/ ~AllDigits(body) THEN Err("InvalidDigit")
        ELSE IF neg /\ MagCmp(mag, I64MinMag) > 0 THEN Err("NegOverflow")
        ELSE IF ~neg /\ MagCmp(mag, I64MaxMag) > 0 THEN Err("PosOverflow")
        ELSE Ok(MkBigInt(neg, mag))

\* BigUint::from_str_radix(s, 10): an optional '+', then digits, which may be
\* separated (not led) by '_'
BigUintFromStr(s0) ==
    LET s == IF Len(s0) >= 1 /\ s0[1] = ord["+"] THEN Tail(s0) ELSE s0
        ds == SelectSeq(s, LAMBDA c : c # ord["_"])
    IN  IF s = <<>> THEN Err("Empty")
        ELSE IF s[1] = ord["_"] \/ ds = <<>> \/ ~AllDigits(ds) THEN Err("InvalidDigit")
        ELSE Ok(StripZeros(TextDigits(ds)))

\* BigInt::from_str_radix(s, 10): a '-' not followed by '+' is the sign
BigIntFromStr(s) ==
    LET neg == Len(s) >= 1 /\ s[1] = ord["-"]
        rest == IF neg /\ ~(Len(s) >= 2 /\ s[2] = ord["+"]) THEN Tail(s) ELSE s
        bu == BigUintFromStr(rest)
    IN  IF bu.ok THEN Ok(MkBigInt(neg, bu.val)) ELSE bu

\* The first position of s holding a character of cs, or 0.
FindChar(s, cs) ==
    IF \E i \in 1..Len(s) : s[i] \in cs
    THEN CHOOSE i \in 1..Len(s) : s[i] \in cs /\ \A j \in 1..(i - 1) : s[j] \notin cs
    ELSE 0

\* i128::from_str of an exponent field, as a small integer: the texts of the
\* model keep exponents far inside the range.
ExponentOf(r) == IF r.ok THEN Ok(IntOfBig(r.val)) ELSE r

ParseExponent(s) == ExponentOf(ParseI64(s))

\* The result of from_str: ex the exponent, int the coefficient, offset the
\* number of digits after the decimal point
DecimalResult(base, ex, int, offset) ==
    IF ~ex.ok THEN Err("ParseInt")
    ELSE IF base = <<>> THEN Err("Empty")
    ELSE IF ~int.ok THEN Err("ParseBigInt")
    ELSE Ok([int |-> int.val, scale |-> offset - ex.val])

\* The mantissa base, with its decimal point at dloc (0: none)
DecimalMantissa(base, ex, dloc) ==
    LET lead == IF dloc = 0 THEN base ELSE SubSeq(base, 1, dloc - 1)
        trail == IF dloc = 0 THEN <<>> ELSE SubSeq(base, dloc + 1, Len(base))
    IN  DecimalResult(base, ex, BigIntFromStr(lead \o trail),
                      Len(SelectSeq(trail, LAMBDA c : c # ord["_"])))

\* The text s, with its exponent mark at eloc (0: none)
DecimalExponent(s, eloc) ==
    LET base == IF eloc = 0 THEN s ELSE SubSeq(s, 1, eloc - 1)
    IN  DecimalMantissa(base,
                        IF eloc = 0 THEN Ok(0) ELSE ParseExponent(SubSeq(s, eloc + 1, Len(s))),
                        FindChar(base, {ord["."]}))

\* BigDecimal::from_str (from_str_radix with radix 10): the coefficient and
\* the scale, the number of digits after the decimal point less the exponent
BigDecimalFromStr(s) == DecimalExponent(s, FindChar(s, {ord["e"], ord["E"]}))

F64OverflowDigits ==
    <<1,7,9,7,6,9,3,1,3,4,8,6,2,3,1,5,8,0,7,9,3,7,2,8,9,7,1,4,0,5,3,0,3,4,1,5,0,7,9,9,3,4,1,3,2,7,1,0,0,3>> \o
    <<7,8,2,6,9,3,6,1,7,3,7,7,8,9,8,0,4,4,4,9,6,8,2,9,2,7,6,4,7,5,0,9,4,6,6,4,9,0,1,7,9,7,7,5,8,7,2,0,7,0>> \o
    <<9,6,3,3,0,2,8,6,4,1,6,6,9,2,8,8,7,9,1,0,9,4,6,5,5,5,5,4,7,8,5,1,9,4,0,4,0,2,6,3,0,6,5,7,4,8,8,6,7,1>> \o
    <<5,0,5,8,2,0,6,8,1,9,0,8,9,0,2,0,0,0,7,0,8,3,8,3,6,7,6,2,7,3,8,5,4,8,4,5,8,1,7,7,1,1,5,3,1,7,6,4,4,7>> \o
    <<5,7,3,0,2,7,0,0,6,9,8,5,5,5,7,1,3,6,6,9,5,9,6,2,2,8,4,2,9,1,4,8,1,9,8,6,0,8,3,4,9,3,6,4,7,5,2,9,2,7>> \o
    <<1,9,0,7,4,1,6,8,4,4,4,3,6,5,5,1,0,7,0,4,3,4,2,7,1,1,5,5,9,6,9,9,5,0,8,0,9,3,0,4,2,8,8,0,1,7,7,9,0,4>> \o
    <<1,7,4,4,9,7,7,9,2>>

F64UnderflowDigits ==
    <<2,4,7,0,3,2,8,2,2,9,2,0,6,2,3,2,7,2,0,8,8,2,8,4,3,9,6,4,3,4,1,1,0,6,8,6,1,8,2,5,2,9,9,0,1,3,0,7,1,6>> \o
    <<2,3,8,2,2,1,2,7,9,2,8,4,1,2,5,0,3,3,7,7,5,3,6,3,5,1,0,4,3,7,5,9,3,2,6,4,9,9,1,8,1,8,0,8,1,7,9,9,6,1>> \o
    <<8,9,8,9,8,2,8,2,3,4,7,7,2,2,8,5,8,8,6,5,4,6,3,3,2,8,3,5,5,1,7,7,9,6,9,8,9,8,1,9,9,3,8,7,3,9,8,0,0,5>> \o
    <<3,9,0,9,3,9,0,6,3,1,5,0,3,5,6,5,9,5,1,5,5,7,0,2,2,6,3,9,2,2,9,0,8,5,8,3,9,2,4,4,9,1,0,5,1,8,4,4,3,5>> \o
    <<9,3,1,8,0,2,8,4,9,9,3,6,5,3,6,1,5,2,5,0,0,3,1,9,3,7,0,4,5,7,6,7,8,2,4,9,2,1,9,3,6,5,6,2,3,6,6,9,8,6>> \o
    <<3,6,5,8,4,8,0,7,5,7,0,0,1,5,8,5,7,6,9,2,6,9,9,0,3,7,0,6,3,1,1,9,2,8,2,7,9,5,5,8,5,5,1,3,3,2,9,2,7,8>> \o
    <<3,4,3,3,8,4,0,9,3,5,1,9,7,8,0,1,5,5,3,1,2,4,6,5,9,7,2,6,3,5,7,9,5,7,4,6,2,2,7,6,6,4,6,5,2,7,2,8,2,7>> \o
    <<2,2,0,0,5,6,3,7,4,0,0,6,4,8,5,4,9,9,9,7,7,0,9,6,5,9,9,4,7,0,4,5,4,0,2,0,8,2,8,1,6,6,2,2,6,2,3,7,8,5>> \o
    <<7,3,9,3,4,5,0,7,3,6,3,3,9,0,0,7,9,6,7,7,6,1,9,3,0,5,7,7,5,0,6,7,4,0,1,7,6,3,2,4,6,7,3,6,0,0,9,6,8,9>> \o
    <<5,1,3,4,0,5,3,5,5,3,7,4,5,8,5,1,6,6,6,1,1,3,4,2,2,3,7,6,6,6,7,8,6,0,4,1,6,2,1,5,9,6,8,0,4,6,1,9,1,4>> \o
    <<4,6,7,2,9,1,8,4,0,3,0,0,5,3,0,0,5,7,5,3,0,8,4,9,0,4,8,7,6,5,3,9,1,7,1,1,3,8,6,5,9,1,6,4,6,2,3,9,5,2>> \o
    <<4,9,1,2,6,2,3,6,5,3,8,8,1,8,7,9,6,3,6,2,3,9,3,7,3,2,8,0,4,2,3,8,9,1,0,1,8,6,7,2,3,4,8,4,9,7,6,6,8,2>> \o
    <<3,5,0,8,9,8,6,3,3,8,8,5,8,7,9,2,5,6,2,8,3,0,2,7,5,5,9,9,5,6,5,7,5,2,4,4,5,5,5,0,7,2,5,5,1,8,9,3,1,3>> \o
    <<6,9,0,8,3,6,2,5,4,7,7,9,1,8,6,9,4,8,6,6,7,9,9,4,9,6,8,3,2,4,0,4,9,7,0,5,8,2,1,0,2,8,5,1,3,1,8,5,4,5>> \o
    <<1,3,9,6,2,1,3,8,3,7,7,2,2,8,2,6,1,4,5,4,3,7,6,9,3,4,1,2,5,3,2,0,9,8,5,9,1,3,2,7,6,6,7,2,3,6,3,2,8,1>> \o
    <<2,5>>

F64OverflowPoint == 309
F64UnderflowPoint == -323

\* ds padded with zeros on the right to length n
PadRight(ds, n) == ds \o [i \in 1..(n - Len(ds)) |-> 0]

\* Compare the digit sequences a and b as fractions 0.a and 0.b
FracCmp(a, b) ==
    LET n == MaxOf(Len(a), Len(b)) IN LexCmp(PadRight(a, n), PadRight(b, n))

StripTrailingZeros(ds) ==
    LET nz == {i \in 1..Len(ds) : ds[i] # 0}
    IN  IF nz = {} THEN <<>>
        ELSE SubSeq(ds, 1, CHOOSE i \in nz : \A j \in nz : i >= j)

LeadingZeros(ds) ==
    Cardinality({i \in 1..Len(ds) : \A j \in 1..i : ds[j] = 0})

\* The exponent field of a float literal: digits accumulate while the value is
\* below 65536, so a huge exponent saturates instead of wrapping.
RECURSIVE ExpDigits(_, _)
ExpDigits(ds, acc0) ==
    IF ds = <<>> THEN acc0
    ELSE ExpDigits(Tail(ds), IF acc0 < 65536 THEN 10 * acc0 + Head(ds) ELSE acc0)

\* A double: zero |-> TRUE, or the decimal value 0.digits * 10^point of a
\* finite non-zero double, or inf |-> TRUE.  A literal denotes the double
\* nearest to it; the model keeps the literal's decimal value for it.
F64Zero(neg) == [neg |-> neg, zero |-> TRUE, inf |-> FALSE, digits |-> <<>>, point |-> 0]
F64Inf(neg) == [neg |-> neg, zero |-> FALSE, inf |-> TRUE, digits |-> <<>>, point |-> 0]
F64Finite(neg, ds, n) == [neg |-> neg, zero |-> FALSE, inf |-> FALSE, digits |-> ds, point |-> n]

\* The double nearest to 0.sig * 10^n: infinite from 2^1024 - 2^970 up, zero
\* up to 2^-1075.
F64Round(neg, all, n0) ==
    LET z == LeadingZeros(all)
        sig == StripTrailingZeros(SubSeq(all, z + 1, Len(all)))
        n == n0 - z
    IN  IF sig = <<>> THEN F64Zero(neg)
        ELSE IF n > F64OverflowPoint
                \/ (n = F64OverflowPoint /\ FracCmp(sig, F64OverflowDigits) >= 0)
             THEN F64Inf(neg)
        ELSE IF n < F64UnderflowPoint
                \/ (n = F64UnderflowPoint /\ FracCmp(sig, F64UnderflowDigits) <= 0)
             THEN F64Zero(neg)
        ELSE F64Finite(neg, sig, n)

\* The double of the integer digits ipart, the fraction digits fpart and the
\* exponent digits edigits (has_exp: an exponent mark was there)
F64Result(neg, ipart, fpart, has_exp, eneg, edigits) ==
    IF \/ ~AllDigits(ipart) \/ ~AllDigits(fpart)
       \/ ipart \o fpart = <<>>
       \/ (has_exp /\ (edigits = <<>> \/ ~AllDigits(edigits)))
    THEN Err("Invalid")
    ELSE Ok(F64Round(neg, TextDigits(ipart \o fpart),
                     Len(ipart) + (IF eneg THEN -1 ELSE 1) * ExpDigits(TextDigits(edigits), 0)))

\* The mantissa mant, with its decimal point at dloc (0: none), and the text
\* expt after the exponent mark
F64Mantissa(neg, mant, dloc, has_exp, expt) ==
    F64Result(neg,
              IF dloc = 0 THEN mant ELSE SubSeq(mant, 1, dloc - 1),
              IF dloc = 0 THEN <<>> ELSE SubSeq(mant, dloc + 1, Len(mant)),
              has_exp,
              Len(expt) >= 1 /\ expt[1] = ord["-"],
              IF Len(expt) >= 1 /\ expt[1] \in {ord["-"], ord["+"]} THEN Tail(expt) ELSE expt)

\* The text body after the sign, with its exponent mark at eloc (0: none)
F64Exponent(neg, body, eloc) ==
    LET mant == IF eloc = 0 THEN body ELSE SubSeq(body, 1, eloc - 1)
    IN  F64Mantissa(neg, mant, FindChar(mant, {ord["."]}), eloc # 0,
                    IF eloc = 0 THEN <<>> ELSE SubSeq(body, eloc + 1, Len(body)))

F64Body(neg, body) == F64Exponent(neg, body, FindChar(body, {ord["e"], ord["E"]}))

\* str::parse::<f64> on a text of signs, digits, '.', 'e' and 'E':
\*   Sign? ( Digit+ | Digit+ '.' Digit* | Digit* '.' Digit+ ) ( ('e'|'E') Sign? Digit+ )?
ParseF64(s) ==
    F64Body(Len(s) >= 1 /\ s[1] = ord["-"],
            IF Len(s) >= 1 /\ s[1] \in {ord["-"], ord["+"]} THEN Tail(s) ELSE s)

IsFinite(d) == ~d.inf

----------------------------------------------------------------------------
(* Errors *)

NoChar == -1

\* ParseError variants; ch is the character a variant carries, or NoChar
UnexpectedCharacter(c) == [kind |-> "UnexpectedCharacter", ch |-> c]
UnexpectedEndOfInput == [kind |-> "UnexpectedEndOfInput", ch |-> NoChar]
InvalidEscapeSequence(c) == [kind |-> "InvalidEscapeSequence", ch |-> c]
TrailingCharacters == [kind |-> "TrailingCharacters", ch |-> NoChar]
NoParseError == [kind |-> "None", ch |-> NoChar]

\* From<ParseError> for Error: the status is GenericFailure and the reason is
\* the variant's name (Display writes as_ref() alone).  cause records the
\* ParseError the Error was made from.
ErrorFrom(pe) == [status |-> "GenericFailure", reason |-> pe.kind, cause |-> pe]

\* Error::new(Status::InvalidArg, e)
InvalidArg(e) == [status |-> "InvalidArg", reason |-> e, cause |-> NoParseError]

Fail(e) == [ok |-> FALSE, err |-> e]
Done(v, p) == [ok |-> TRUE, val |-> v, pos |-> p]

----------------------------------------------------------------------------
(* JsonParser: the cursor is the position of the next character of text *)

Peek(text, p) == IF p <= Len(text) THEN text[p] ELSE NoChar

RECURSIVE SkipWhitespace(_, _)
SkipWhitespace(text, p) ==
    IF p <= Len(text) /\ IsWhitespace(text[p]) THEN SkipWhitespace(text, p + 1) ELSE p

\* expect_char consumes the character it looks at, also when it is the wrong one
ExpectChar(text, p, expected) ==
    IF p > Len(text) THEN Fail(UnexpectedEndOfInput)
    ELSE IF text[p] = expected THEN Done(expected, p + 1)
    ELSE Fail(UnexpectedCharacter(text[p]))

RECURSIVE ExpectStr(_, _, _)
ExpectStr(text, p, expected) ==
    IF expected = <<>> THEN Done(<<>>, p)
    ELSE LET r == ExpectChar(text, p, Head(expected))
         IN  IF r.ok THEN ExpectStr(text, r.pos, Tail(expected)) ELSE r

ReadNChars(text, p, n) ==
    IF p + n - 1 <= Len(text) THEN Done(SubSeq(text, p, p + n - 1), p + n)
    ELSE Fail(UnexpectedEndOfInput)

ParseNull(text, p) ==
    LET r == ExpectStr(text, p, Txt(<<"n", "u", "l", "l">>))
    IN  IF r.ok THEN Done(JsNull, r.pos) ELSE Fail(ErrorFrom(r.err))

ParseTrue(text, p) ==
    LET r == ExpectStr(text, p, Txt(<<"t", "r", "u", "e">>))
    IN  IF r.ok THEN Done(JsBoolean(TRUE), r.pos) ELSE Fail(ErrorFrom(r.err))

ParseFalse(text, p) ==
    LET r == ExpectStr(text, p, Txt(<<"f", "a", "l", "s", "e">>))
    IN  IF r.ok THEN Done(JsBoolean(FALSE), r.pos) ELSE Fail(ErrorFrom(r.err))

\* The scanning loop of parse_number: the position after the token and the flags.
RECURSIVE ScanNumber(_, _, _, _)
ScanNumber(text, p, has_decimal, has_exponent) ==
    LET c == Peek(text, p)
        stop == [pos |-> p, has_decimal |-> has_decimal, has_exponent |-> has_exponent]
    IN  IF c = NoChar THEN stop
        ELSE IF IsAsciiDigit(c) THEN ScanNumber(text, p + 1, has_decimal, has_exponent)
        ELSE IF c = ord["."] /\ ~has_decimal /\ ~has_exponent
             THEN ScanNumber(text, p + 1, TRUE, has_exponent)
        ELSE IF c \in {ord["e"], ord["E"]} /\ ~has_exponent
             THEN IF Peek(text, p + 1) \in {ord["+"], ord["-"]}
                  THEN ScanNumber(text, p + 2, has_decimal, TRUE)
                  ELSE ScanNumber(text, p + 1, has_decimal, TRUE)
        ELSE stop

SafeMaxMag == <<9,0,0,7,1,9,9,2,5,4,7,4,0,9,9,1>>

\* parse_float_as_big: the BigNumber of the BigDecimal, or its error
DecimalValue(big_dec) ==
    IF big_dec.ok THEN Ok(JsBigNumber(big_dec.val)) ELSE Err(InvalidArg(big_dec.err))

\* The double without the is_finite check
DoubleValueUnchecked(v) == IF v.ok THEN Ok(JsDouble(v.val)) ELSE Ok(JsNull)

\* A finite double is a Number, anything else is null
DoubleValue(v) == IF v.ok /\ IsFinite(v.val) THEN Ok(JsDouble(v.val)) ELSE Ok(JsNull)

\* The range check with MAX excluded
IntValueBelowMax(v, bigint, o) ==
    IF ~o.always_parse_as_big /\ v.ok /\ MagCmp(v.val.mag, SafeMaxMag) < 0
    THEN Ok(JsInt64(v.val))
    ELSE IF bigint.ok THEN Ok(JsBigInt(bigint.val))
    ELSE Err(InvalidArg(bigint.err))

\* An i64 within -MAX..=MAX is a Number unless always_parse_as_big, anything
\* else is a BigInt
IntValue(v, bigint, o) ==
    IF ~o.always_parse_as_big /\ v.ok /\ MagCmp(v.val.mag, SafeMaxMag) <= 0
    THEN Ok(JsInt64(v.val))
    ELSE IF bigint.ok THEN Ok(JsBigInt(bigint.val))
    ELSE Err(InvalidArg(bigint.err))

\* The classification of a scanned token num_str.
ClassifyNumber(num_str, has_decimal, has_exponent, o) ==
    IF has_decimal \/ has_exponent
    THEN IF o.parse_float_as_big
         THEN DecimalValue(BigDecimalFromStr(num_str))
         ELSE DoubleValue(ParseF64(num_str))
    ELSE IntValue(ParseI64(num_str), BigIntFromStr(num_str), o)

NumberResult(r, pos) == IF r.ok THEN Done(r.val, pos) ELSE Fail(r.err)

ParseNumber(text, p, o) ==
    LET sc == ScanNumber(text, IF Peek(text, p) = ord["-"] THEN p + 1 ELSE p, FALSE, FALSE)
    IN  NumberResult(ClassifyNumber(SubSeq(text, p, sc.pos - 1), sc.has_decimal, sc.has_exponent, o),
                     sc.pos)

HexDigits == (48..57) \cup (65..70) \cup (97..102)
HexVal(c) == IF c \in 48..57 THEN c - 48 ELSE IF c \in 65..70 THEN c - 55 ELSE c - 87

RECURSIVE HexNat(_)
HexNat(s) == IF s = <<>> THEN 0 ELSE 16 * HexNat(SubSeq(s, 1, Len(s) - 1)) + HexVal(s[Len(s)])

\* u32::from_str_radix(s, 16) on a text of four characters: a leading '+' is
\* accepted when digits follow it, a '-' is not (the type is unsigned)
ParseU32Hex(s) ==
    LET digits == IF Len(s) >= 2 /\ s[1] = ord["+"] THEN Tail(s) ELSE s
    IN  IF s = <<>> THEN Err("Empty")
        ELSE IF \A i \in 1..Len(digits) : digits[i] \in HexDigits THEN Ok(HexNat(digits))
        ELSE Err("InvalidDigit")

\* The escapes without the arm for '/'
SimpleEscapeNoSolidus(c) ==
    IF c = ord["\""] THEN ord["\""]
    ELSE IF c = ord["\\"] THEN ord["\\"]
    ELSE IF c = ord["b"] THEN 8
    ELSE IF c = ord["f"] THEN 12
    ELSE IF c = ord["n"] THEN ord["\n"]
    ELSE IF c = ord["r"] THEN ord["\r"]
    ELSE IF c = ord["t"] THEN ord["\t"]
    ELSE NoChar

\* The character an escape letter stands for, or NoChar.
SimpleEscape(c) ==
    IF c = ord["\""] THEN ord["\""]
    ELSE IF c = ord["\\"] THEN ord["\\"]
    ELSE IF c = ord["/"] THEN ord["/"]
    ELSE IF c = ord["b"] THEN 8
    ELSE IF c = ord["f"] THEN 12
    ELSE IF c = ord["n"] THEN ord["\n"]
    ELSE IF c = ord["r"] THEN ord["\r"]
    ELSE IF c = ord["t"] THEN ord["\t"]
    ELSE NoChar

\* The \u arm of parse_string, the cursor after the 'u'.
UnicodeEscape(text, p) ==
    LET hex_str == ReadNChars(text, p, 4)
        code == ParseU32Hex(hex_str.val)
    IN  IF ~hex_str.ok THEN Fail(ErrorFrom(hex_str.err))
        ELSE IF ~code.ok THEN Fail(ErrorFrom(InvalidEscapeSequence(ord["u"])))
        ELSE IF ~IsUnicodeScalar(code.val) THEN Fail(ErrorFrom(InvalidEscapeSequence(ord["u"])))
        ELSE Done(code.val, hex_str.pos)

\* The loop of parse_string: s is the string so far.
RECURSIVE StringLoop(_, _, _)
StringLoop(text, p, s) ==
    LET c == Peek(text, p)
        e == Peek(text, p + 1)
    IN  IF c = NoChar THEN Fail(ErrorFrom(UnexpectedEndOfInput))
        ELSE IF c = ord["\""] THEN Done(s, p + 1)
        ELSE IF c = ord["\\"]
             THEN IF e = NoChar THEN Fail(ErrorFrom(UnexpectedEndOfInput))
                  ELSE IF SimpleEscape(e) # NoChar
                       THEN StringLoop(text, p + 2, Append(s, SimpleEscape(e)))
                  ELSE IF e = ord["u"]
                       THEN LET u == UnicodeEscape(text, p + 2)
                            IN  IF u.ok THEN StringLoop(text, u.pos, Append(s, u.val)) ELSE u
                  ELSE Fail(ErrorFrom(InvalidEscapeSequence(e)))
        ELSE StringLoop(text, p + 1, Append(s, c))

ParseString(text, p) ==
    LET q == ExpectChar(text, p, ord["\""])
    IN  IF q.ok THEN StringLoop(text, q.pos, <<>>) ELSE Fail(ErrorFrom(q.err))

RECURSIVE ParseValue(_, _, _)
RECURSIVE ArrayLoop(_, _, _, _)
RECURSIVE ObjectLoop(_, _, _, _)

\* After a value of an array or an object: ',' continues, close stops.
Separator(text, p, close) ==
    LET c == Peek(text, p)
    IN  IF c = ord[","] THEN [ok |-> TRUE, more |-> TRUE, pos |-> SkipWhitespace(text, p + 1)]
        ELSE IF c = close THEN [ok |-> TRUE, more |-> FALSE, pos |-> p + 1]
        ELSE IF c = NoChar THEN Fail(ErrorFrom(UnexpectedEndOfInput))
        ELSE Fail(ErrorFrom(UnexpectedCharacter(c)))

\* After the element v of an array
ArrayElement(text, o, array, v) ==
    LET sep == Separator(text, SkipWhitespace(text, v.pos), ord["]"])
    IN  IF ~v.ok THEN v
        ELSE IF ~sep.ok THEN sep
        ELSE IF sep.more THEN ArrayLoop(text, sep.pos, o, ArraySet(array, v.val))
        ELSE Done(ArraySet(array, v.val), sep.pos)

ArrayLoop(text, p, o, array) == ArrayElement(text, o, array, ParseValue(text, p, o))

ParseArray(text, p, o) ==
    LET q == ExpectChar(text, p, ord["["])
        p1 == SkipWhitespace(text, q.pos)
    IN  IF ~q.ok THEN Fail(ErrorFrom(q.err))
        ELSE IF Peek(text, p1) = ord["]"] THEN Done(CreateArray, p1 + 1)
        ELSE ArrayLoop(text, p1, o, CreateArray)

\* After the value v of the member key of an object
ObjectMember(text, o, obj, key, v) ==
    LET sep == Separator(text, SkipWhitespace(text, v.pos), ord["}"])
    IN  IF ~v.ok THEN v
        ELSE IF ~sep.ok THEN sep
        ELSE IF sep.more THEN ObjectLoop(text, sep.pos, o, SetNamedProperty(obj, key, v.val))
        ELSE Done(SetNamedProperty(obj, key, v.val), sep.pos)

\* After the key of a member of an object
ObjectKey(text, o, obj, key) ==
    LET colon == ExpectChar(text, SkipWhitespace(text, key.pos), ord[":"])
    IN  IF ~key.ok THEN key
        ELSE IF ~colon.ok THEN Fail(ErrorFrom(colon.err))
        ELSE ObjectMember(text, o, obj, key.val,
                          ParseValue(text, SkipWhitespace(text, colon.pos), o))

ObjectLoop(text, p, o, obj) == ObjectKey(text, o, obj, ParseString(text, p))

ParseObject(text, p, o) ==
    LET q == ExpectChar(text, p, ord["{"])
        p1 == SkipWhitespace(text, q.pos)
    IN  IF ~q.ok THEN Fail(ErrorFrom(q.err))
        ELSE IF Peek(text, p1) = ord["}"] THEN Done(CreateObject, p1 + 1)
        ELSE ObjectLoop(text, p1, o, CreateObject)

\* to_js_string of a parsed string
StringValue(s) == IF s.ok THEN Done(JsString(s.val), s.pos) ELSE s

\* The value that starts with the character c at p
ValueAt(text, p, o, c) ==
    IF c = ord["n"] THEN ParseNull(text, p)
    ELSE IF c = ord["t"] THEN ParseTrue(text, p)
    ELSE IF c = ord["f"] THEN ParseFalse(text, p)
    ELSE IF c = ord["\""] THEN StringValue(ParseString(text, p))
    ELSE IF c = ord["["] THEN ParseArray(text, p, o)
    ELSE IF c = ord["{"] THEN ParseObject(text, p, o)
    ELSE IF c # NoChar /\ (IsAsciiDigit(c) \/ c = ord["-"]) THEN ParseNumber(text, p, o)
    ELSE IF c # NoChar THEN Fail(ErrorFrom(UnexpectedCharacter(c)))
    ELSE Fail(ErrorFrom(UnexpectedEndOfInput))

ValueFrom(text, p, o) == ValueAt(text, p, o, Peek(text, p))

ParseValue(text, p0, o) == ValueFrom(text, SkipWhitespace(text, p0), o)

\* the end of parse without the skip_whitespace before the end-of-input check
ParseEndNoSkip(text, v) ==
    IF ~v.ok THEN Fail(v.err)
    ELSE IF Peek(text, v.pos) # NoChar THEN Fail(ErrorFrom(TrailingCharacters))
    ELSE Ok(v.val)

\* After the value v: only whitespace up to the end of input
ParseEnd(text, v) ==
    IF ~v.ok THEN Fail(v.err)
    ELSE IF Peek(text, SkipWhitespace(text, v.pos)) # NoChar
         THEN Fail(ErrorFrom(TrailingCharacters))
    ELSE Ok(v.val)

\* JsonParser::parse: one value, then only whitespace up to the end of input
Parse(text, o) == ParseEnd(text, ParseValue(text, 1, o))

\* Options: an absent flag counts as false (is_some_and)
DefaultOptions ==
    [always_parse_as_big |-> FALSE, use_native_big_int |-> FALSE, parse_float_as_big |-> FALSE]

----------------------------------------------------------------------------
(* BigNumber: a BigDecimal [int, scale] of value int * 10^(-scale) *)

MinOf(x, y) == IF x <= y THEN x ELSE y

DecimalOrInvalidArg(n) == IF n.ok THEN n ELSE Err(InvalidArg(n.err))

\* BigNumber::new(String, base): only radix 10 is a decimal radix
BigNumberNew(s, base) ==
    IF base # 10 THEN Err(InvalidArg("Radix"))
    ELSE DecimalOrInvalidArg(BigDecimalFromStr(s))

\* The coefficient of d at the scale sc >= d.scale.
Rescaled(d, sc) == BigMulPow10(d.int, sc - d.scale)

\* &a + &b: the coefficients are added at the larger scale
DecAdd(a, b) ==
    LET sc == MaxOf(a.scale, b.scale)
    IN  [int |-> BigAdd(Rescaled(a, sc), Rescaled(b, sc)), scale |-> sc]

\* An order of the stored coefficients, whatever the scales
DecCmpUnscaled(a, b) == BigCmp(a.int, b.int)

\* BigDecimal's Ord: the order of the values
DecCmp(a, b) ==
    LET sc == MaxOf(a.scale, b.scale)
    IN  BigCmp(Rescaled(a, sc), Rescaled(b, sc))

Plus(a, b) == DecAdd(a, b)

ComparedTo(a, b) ==
    LET o == DecCmp(a, b)
    IN  IF o < 0 THEN -1 ELSE IF o = 0 THEN 0 ELSE 1

Negated(a) == [int |-> BigNeg(a.int), scale |-> a.scale]

DefaultPrecision == 100

\* b^e mod m by squaring
RECURSIVE PowMod(_, _, _)
PowMod(b, e, m) ==
    IF e = 0 THEN 1 % m
    ELSE IF e % 2 = 0 THEN LET h == PowMod(b, e \div 2, m) IN (h * h) % m
    ELSE (b * PowMod(b, e - 1, m)) % m

\* The least k >= 0 with num * 10^k >= den, for num >= 1
RECURSIVE ShiftCount(_, _)
ShiftCount(num, den) == IF num >= den THEN 0 ELSE 1 + ShiftCount(num * 10, den)

RECURSIVE Pow10(_)
Pow10(k) == IF k = 0 THEN 1 ELSE 10 * Pow10(k - 1)

\* impl_division(num, den, scale, DefaultPrecision) for num, den >= 1: the
\* numerator is shifted until it is not below the denominator; after the first
\* division each turn of the loop takes one more quotient digit, while a
\* remainder is left and the quotient has fewer than DefaultPrecision digits;
\* a remainder left at the end rounds the last digit half up.  rem(k) is the
\* remainder after k turns.
ImplDivision(num, den, scale0) ==
    LET shift == ShiftCount(num, den)
        n1 == num * Pow10(shift)
        q0 == NatDigits(n1 \div den)
        r0 == n1 % den
        rem(k) == (r0 * PowMod(10, k, den)) % den
        most == DefaultPrecision - Len(q0)
        ends == {k \in 0..most : rem(k) = 0}
        turns == IF ends = {} THEN most ELSE CHOOSE k \in ends : \A j \in ends : k <= j
        quotient == q0 \o [k \in 1..turns |-> (10 * rem(k - 1)) \div den]
        term == IF rem(turns) # 0 /\ (10 * rem(turns)) \div den >= 5 THEN <<1>> ELSE <<0>>
    IN  [mag |-> MagAdd(quotient, term), scale |-> scale0 + shift + turns]

\* a is one: its coefficient is 10^scale
DecIsOne(a) == a.scale >= 0 /\ a.int = [neg |-> FALSE, mag |-> <<1>> \o [i \in 1..a.scale |-> 0]]

\* &a / &b for b # 0 (a zero divisor panics).  The coefficients are taken as
\* machine integers here: the operands of the model are small.
DecDiv(a, b) ==
    IF BigIsZero(a.int) \/ DecIsOne(b) THEN a
    ELSE IF a.int = b.int THEN [int |-> [neg |-> FALSE, mag |-> <<1>>], scale |-> a.scale - b.scale]
    ELSE LET q == ImplDivision(DigitsNat(a.int.mag), DigitsNat(b.int.mag), a.scale - b.scale)
         IN  [int |-> MkBigInt(a.int.neg # b.int.neg, q.mag), scale |-> q.scale]

\* The rounding of BigDecimal::round is the decimal crate's: half to even by
\* default in its current versions, half away from zero in its older ones.
\* The build decides; the model takes either.
RoundingModes == {"HalfEven", "HalfUp"}

\* Whether the dropped digits frac of a coefficient whose kept part ends in
\* the digit last round the kept part away from zero.
RoundsUp(mode, last, frac) ==
    LET c == FracCmp(frac, <<5>>)
    IN  c > 0 \/ (c = 0 /\ (mode = "HalfUp" \/ last % 2 = 1))

\* BigDecimal::round(0): no digit is left after the decimal point
DecRound0(a, mode) ==
    IF a.scale <= 0 THEN [int |-> BigMulPow10(a.int, -a.scale), scale |-> 0]
    ELSE LET m == PadLeft(a.int.mag, MaxOf(Len(a.int.mag), a.scale + 1))
             keep == StripZeros(SubSeq(m, 1, Len(m) - a.scale))
             frac == SubSeq(m, Len(m) - a.scale + 1, Len(m))
             up == RoundsUp(mode, keep[Len(keep)], frac)
         IN  [int |-> MkBigInt(a.int.neg, IF up THEN MagAdd(keep, <<1>>) ELSE keep), scale |-> 0]

DividedBy(a, b) == DecDiv(a, b)

DividedToIntegerBy(a, b, mode) == DecRound0(DecDiv(a, b), mode)

Idiv(a, b, mode) == DividedToIntegerBy(a, b, mode)

IntegerValue(a, mode) == DecRound0(a, mode)

\* A small integer as decimal text.
IntText(n) == IF n < 0 THEN <<ord["-"]>> \o DigitsText(NatDigits(-n)) ELSE DigitsText(NatDigits(n))

\* BigDecimal::write_scientific_notation: the first digit, the others after a
\* '.', and the exponent that places the point
ToScientificNotation(d) ==
    IF BigIsZero(d.int) THEN Txt(<<"0", "e", "0">>)
    ELSE LET dec_str == DigitsText(d.int.mag)
             remaining == Tail(dec_str)
         IN  (IF d.int.neg THEN <<ord["-"]>> ELSE <<>>)
             \o <<Head(dec_str)>>
             \o (IF remaining # <<>> THEN <<ord["."]>> \o remaining ELSE <<>>)
             \o <<ord["e"]>> \o IntText(Len(remaining) - d.scale)

\* impl Display for BigNumber
Display(d) == ToScientificNotation(d)

\* toString
ToStringJs(d) == Display(d)

\* toJSON: JSON.rawJSON of the scientific notation, a raw (unquoted) JSON text
ToJson(d) == [rawJSON |-> ToScientificNotation(d)]

----------------------------------------------------------------------------
(* JsonStringifier *)

\* The UTF-16 code units of a string of scalar values, and the scalar values
\* of well-formed UTF-16.
RECURSIVE ToUtf16(_)
ToUtf16(s) ==
    IF s = <<>> THEN <<>>
    ELSE LET c == Head(s)
         IN  (IF c < 65536 THEN <<c>>
              ELSE <<55296 + ((c - 65536) \div 1024), 56320 + ((c - 65536) % 1024)>>)
             \o ToUtf16(Tail(s))

RECURSIVE Utf16Chars(_)
Utf16Chars(u) ==
    IF u = <<>> THEN <<>>
    ELSE IF Head(u) \in 55296..56319 /\ Len(u) >= 2
         THEN <<65536 + (Head(u) - 55296) * 1024 + (u[2] - 56320)>> \o Utf16Chars(Tail(Tail(u)))
    ELSE <<Head(u)>> \o Utf16Chars(Tail(u))

HexChar(d) == IF d < 10 THEN 48 + d ELSE 55 + d

\* format!("{:02X}", code): two digits for a code below 256
Hex2(code) == <<HexChar((code \div 16) % 16), HexChar(code % 16)>>

\* format!("{:04X}", code) for a code below 65536
Hex4(code) ==
    <<HexChar(code \div 4096), HexChar((code \div 256) % 16),
      HexChar((code \div 16) % 16), HexChar(code % 16)>>

\* write_string without the arm for the backslash
EscapeCharNoBackslash(c) ==
    IF c = ord["\""] THEN Txt(<<"\\", "\"">>)
    ELSE IF c = ord["\n"] THEN Txt(<<"\\", "n">>)
    ELSE IF c = ord["\r"] THEN Txt(<<"\\", "r">>)
    ELSE IF c = ord["\t"] THEN Txt(<<"\\", "t">>)
    ELSE IF c = 8 THEN Txt(<<"\\", "b">>)
    ELSE IF c = 12 THEN Txt(<<"\\", "f">>)
    ELSE IF c \in 0..31 THEN Txt(<<"\\", "u">>) \o Hex4(c)
    ELSE <<c>>

\* One character of write_string.
EscapeChar(c) ==
    IF c = ord["\""] THEN Txt(<<"\\", "\"">>)
    ELSE IF c = ord["\\"] THEN Txt(<<"\\", "\\">>)
    ELSE IF c = ord["\n"] THEN Txt(<<"\\", "n">>)
    ELSE IF c = ord["\r"] THEN Txt(<<"\\", "r">>)
    ELSE IF c = ord["\t"] THEN Txt(<<"\\", "t">>)
    ELSE IF c = 8 THEN Txt(<<"\\", "b">>)
    ELSE IF c = 12 THEN Txt(<<"\\", "f">>)
    ELSE IF c \in 0..31 THEN Txt(<<"\\", "u">>) \o Hex4(c)
    ELSE <<c>>

RECURSIVE EscapeAll(_)
EscapeAll(s) == IF s = <<>> THEN <<>> ELSE EscapeChar(Head(s)) \o EscapeAll(Tail(s))

\* write_string: the characters of the UTF-16 string, escaped, between quotes
WriteString(s) ==
    <<ord["\""]>> \o EscapeAll(Utf16Chars(ToUtf16(s))) \o <<ord["\""]>>

WriteNull == Txt(<<"n", "u", "l", "l">>)

WriteBoolean(b) == IF b THEN Txt(<<"t", "r", "u", "e">>) ELSE Txt(<<"f", "a", "l", "s", "e">>)

BigIntText(i) == (IF i.neg THEN <<ord["-"]>> ELSE <<>>) \o DigitsText(i.mag)

Zeros(n) == [i \in 1..n |-> ord["0"]]

\* The host's Number::toString of a double whose shortest decimal digits are
\* d.digits, with the point after d.point of them
DoubleText(d) ==
    LET k == Len(d.digits)
        n == d.point
        ds == DigitsText(d.digits)
        sign == IF d.neg THEN <<ord["-"]>> ELSE <<>>
        ex == (IF n - 1 < 0 THEN <<ord["-"]>> ELSE <<ord["+"]>>)
              \o DigitsText(NatDigits(IF n - 1 < 0 THEN 1 - n ELSE n - 1))
    IN  IF d.zero THEN <<ord["0"]>>
        ELSE IF k <= n /\ n <= 21 THEN sign \o ds \o Zeros(n - k)
        ELSE IF 0 < n /\ n <= 21 THEN sign \o SubSeq(ds, 1, n) \o <<ord["."]>> \o SubSeq(ds, n + 1, k)
        ELSE IF -6 < n /\ n <= 0 THEN sign \o Txt(<<"0", ".">>) \o Zeros(-n) \o ds
        ELSE IF k = 1 THEN sign \o ds \o <<ord["e"]>> \o ex
        ELSE sign \o <<Head(ds)>> \o <<ord["."]>> \o Tail(ds) \o <<ord["e"]>> \o ex

\* write_number: the host's conversion of the number to a string
WriteNumber(v) == IF v.made = "int64" THEN BigIntText(v.int) ELSE DoubleText(v.dbl)

WriteBigint(v) == BigIntText(v.int)

RECURSIVE WriteValue(_)
RECURSIVE WriteElements(_, _)
RECURSIVE WriteProperties(_, _, _)

\* The elements of an array from index i on, a ',' before all but the first.
WriteElements(es, i) ==
    IF i > Len(es) THEN <<>>
    ELSE (IF i > 1 THEN <<ord[","]>> ELSE <<>>) \o WriteValue(es[i]) \o WriteElements(es, i + 1)

\* The properties of an object from the i-th property name on.
WriteProperties(obj, names, i) ==
    IF i > Len(names) THEN <<>>
    ELSE (IF i > 1 THEN <<ord[","]>> ELSE <<>>)
         \o WriteString(names[i]) \o <<ord[":"]>> \o WriteValue(GetProperty(obj, names[i]))
         \o WriteProperties(obj, names, i + 1)

\* write_object without the BigNumber arm: the instance is written as an
\* object, and has no property to enumerate
WriteObjectNoBigNumber(obj) ==
    IF IsBigNumber(obj) THEN Txt(<<"{", "}">>)
    ELSE IF IsArray(obj) THEN <<ord["["]>> \o WriteElements(obj.elems, 1) \o <<ord["]"]>>
    ELSE <<ord["{"]>> \o WriteProperties(obj, GetPropertyNames(obj), 1) \o <<ord["}"]>>

\* write_object: a BigNumber first, then an array, then any other object
WriteObject(obj) ==
    IF IsBigNumber(obj) THEN Display(obj.dec)
    ELSE IF IsArray(obj) THEN <<ord["["]>> \o WriteElements(obj.elems, 1) \o <<ord["]"]>>
    ELSE <<ord["{"]>> \o WriteProperties(obj, GetPropertyNames(obj), 1) \o <<ord["}"]>>

WriteValue(v) ==
    IF v.type = "String" THEN WriteString(v.s)
    ELSE IF v.type = "BigInt" THEN WriteBigint(v)
    ELSE IF v.type = "Object" THEN WriteObject(v)
    ELSE IF v.type = "Number" THEN WriteNumber(v)
    ELSE IF v.type = "Boolean" THEN WriteBoolean(v.b)
    ELSE WriteNull

Stringify(v) == WriteValue(v)

----------------------------------------------------------------------------
(* The operations, as actions.  A specification draws its inputs in Init     *)
(* and applies the operations to them.                                      *)

None == "none"

\* All sequences over S of length at most n.
BoundedSeq(S, n) == UNION {[1..k -> S] : k \in 0..n}

AllOptions ==
    [always_parse_as_big : BOOLEAN, use_native_big_int : BOOLEAN, parse_float_as_big : BOOLEAN]

\* parse(s, options)
CallParse ==
    /\ pc = "text"
    /\ result' = Parse(input, opts)
    /\ pc' = "parsed"
    /\ UNCHANGED <<input, opts, parts, value, output, da, db, dc, dres, dcmp>>

\* stringify(value) of the value a successful parse returned
StringifyResult ==
    /\ pc = "parsed"
    /\ result.ok
    /\ value' = result.val
    /\ output' = Stringify(result.val)
    /\ pc' = "parsed-stringified"
    /\ UNCHANGED <<input, opts, parts, result, da, db, dc, dres, dcmp>>

\* stringify(value)
CallStringify ==
    /\ pc = "value"
    /\ output' = Stringify(value)
    /\ pc' = "stringified"
    /\ UNCHANGED <<input, opts, parts, result, value, da, db, dc, dres, dcmp>>

\* parse(s, options) of the text stringify returned
ParseOutput ==
    /\ pc = "stringified"
    /\ input' = output
    /\ result' = Parse(output, opts)
    /\ pc' = "reparsed"
    /\ UNCHANGED <<opts, parts, value, output, da, db, dc, dres, dcmp>>

NoDecimals == da = None /\ db = None /\ dc = None /\ dres = None /\ dcmp = None

\* The start of a specification that parses a text put together from pieces.
TextInit(pieces, options) ==
    /\ parts \in pieces
    /\ input = Concat(parts)
    /\ opts \in options
    /\ result = None /\ value = None /\ output = None
    /\ NoDecimals
    /\ pc = "text"

TextNext == CallParse \/ StringifyResult

----------------------------------------------------------------------------
(* Spec: one value with text around it *)

MaxPost == 2

LeadingTexts == {<<>>, Txt(<<" ">>), Txt(<<"\n", "\t">>)}

NumberCores == {Txt(<<"4", "2">>), Txt(<<"-", "7">>), Txt(<<"1", ".", "5">>)}

ValueCores ==
    NumberCores \cup
    { Txt(<<"n", "u", "l", "l">>), Txt(<<"t", "r", "u", "e">>), Txt(<<"f", "a", "l", "s", "e">>),
      Txt(<<"\"", "a", "\"">>), Txt(<<"[", "]">>), Txt(<<"[", "1", ",", " ", "2", "]">>),
      Txt(<<"{", "}">>), Txt(<<"{", "\"", "a", "\"", ":", "1", "}">>) }

TrailingChars == {ord[" "], ord["\r"], ord["x"], ord["2"], ord[","]}

TopPieces == LeadingTexts \X (ValueCores \cup {<<>>}) \X BoundedSeq(TrailingChars, MaxPost)

Init == TextInit(TopPieces, AllOptions)

Next == TextNext

Spec == Init /\ [][Next]_vars

AllWhitespace(s) == \A i \in 1..Len(s) : IsWhitespace(s[i])

Failed(r, reason) == ~r.ok /\ r.err.status = "GenericFailure" /\ r.err.reason = reason

\* The characters that continue a number token.
NumberChars == (48..57) \cup {ord["."], ord["e"], ord["E"]}

\* The text after the value does not continue the value's own token.
Delimited(core, post) == core \notin NumberCores \/ post = <<>> \/ post[1] \notin NumberChars

(* C1: parse accepts exactly one value with whitespace around it.  For an   *)
(* input that is whitespace, one complete value, and more text: if the text *)
(* after the value is all whitespace the parse succeeds with the value the  *)
(* bare text of the value parses to (" 42 " gives the safe integer 42);     *)
(* if it holds a non-whitespace character the parse fails with              *)
(* TrailingCharacters; and an empty or whitespace-only input fails with     *)
(* UnexpectedEndOfInput.                                                    *)
C1_OneValueThenWhitespace ==
    pc = "parsed" =>
        LET core == parts[2]
            post == parts[3]
        IN  /\ (core = <<>> /\ AllWhitespace(post)) => Failed(result, "UnexpectedEndOfInput")
            /\ (core # <<>> /\ Delimited(core, post) /\ AllWhitespace(post)) =>
                   /\ result.ok
                   /\ result = Parse(core, opts)
            /\ (core # <<>> /\ Delimited(core, post) /\ ~AllWhitespace(post)) =>
                   /\ Failed(result, "TrailingCharacters")
                   /\ result.err.cause = TrailingCharacters
            /\ (input = Txt(<<" ", "4", "2", " ">>) /\ opts = DefaultOptions) =>
                   result = Ok(JsInt64([neg |-> FALSE, mag |-> <<4, 2>>]))

\* " 42 x" was parsed and failed with TrailingCharacters
C1_Witness ==
    /\ pc = "parsed"
    /\ input = Txt(<<" ", "4", "2", " ", "x">>)
    /\ Failed(result, "TrailingCharacters")

----------------------------------------------------------------------------
(* SpecNumber: number literals around the boundaries of the integer and the *)
(* double ranges                                                            *)

MaxSuffix == 2

NumberSigns == {<<>>, Txt(<<"-">>)}

NumberSeeds ==
    { <<>>, Txt(<<"1">>), Txt(<<"1", ".", "5">>), Txt(<<"1", "e", "3", "0">>),
      Txt(<<"9", "0", "0", "7", "1", "9", "9", "2", "5", "4", "7", "4", "0", "9", "9">>),
      Txt(<<"9", "2", "2", "3", "3", "7", "2", "0", "3", "6", "8", "5", "4", "7", "7", "5", "8", "0">>),
      Txt(<<"1", "7", "9", "7", "6", "9", "3", "1", "3", "4", "8", "6", "2", "3", "1", "5", "8", "e", "2", "9">>),
      Txt(<<"1", "7", "9", "7", "6", "9", "3", "1", "3", "4", "8", "6", "2", "3", "1", "5", "9", "e", "2", "9">>),
      Txt(<<"0", ".", "0", "0", "0", "2", "e", "-", "3", "2">>),
      Txt(<<"0", ".", "0", "0", "0", "3", "e", "-", "3", "2">>) }

SuffixChars ==
    {ord["0"], ord["1"], ord["2"], ord["8"], ord["9"], ord["."], ord["e"], ord["-"]}

NumberPieces == NumberSigns \X NumberSeeds \X BoundedSeq(SuffixChars, MaxSuffix)

InitNumber == TextInit(NumberPieces, AllOptions)

SpecNumber == InitNumber /\ [][Next]_vars

\* An optional '-' followed by one or more digits
IsIntegerLiteral(s) ==
    /\ s # <<>>
    /\ \A i \in 2..Len(s) : s[i] \in 48..57
    /\ s[1] \in (48..57) \cup {ord["-"]}
    /\ s # Txt(<<"-">>)

\* The digits of an integer literal, without its sign and leading zeros
LiteralMagnitude(s) ==
    StripZeros([i \in 1..Len(SelectSeq(s, LAMBDA c : c # ord["-"])) |->
                    SelectSeq(s, LAMBDA c : c # ord["-"])[i] - 48])

MaxSafeInteger == <<9, 0, 0, 7, 1, 9, 9, 2, 5, 4, 7, 4, 0, 9, 9, 1>>

\* The integer of a literal: zero has no sign
LiteralInteger(s) ==
    [neg |-> s[1] = ord["-"] /\ LiteralMagnitude(s) # <<0>>, mag |-> LiteralMagnitude(s)]

(* C2: a pure integer literal (an optional '-' and digits) parses to a      *)
(* Number holding the literal's value exactly when always_parse_as_big is   *)
(* off and the magnitude is at most 9007199254740991; in every other case   *)
(* it parses to a BigInt of the literal's sign and magnitude.               *)
C2_IntegerClassification ==
    (pc = "parsed" /\ IsIntegerLiteral(input)) =>
        IF ~opts.always_parse_as_big /\ MagCmp(LiteralMagnitude(input), MaxSafeInteger) <= 0
        THEN result = Ok([type |-> "Number", made |-> "int64", int |-> LiteralInteger(input)])
        ELSE result = Ok([type |-> "BigInt", int |-> LiteralInteger(input)])

\* 9007199254740992 was parsed to a BigInt without always_parse_as_big
C2_Witness ==
    /\ pc = "parsed"
    /\ ~opts.always_parse_as_big
    /\ input = Txt(<<"9", "0", "0", "7", "1", "9", "9", "2", "5", "4", "7", "4", "0", "9", "9", "2">>)
    /\ result.ok /\ result.val.type = "BigInt"

\* A token the number scanner reads with the fractional-part or the exponent
\* flag set: an optional '-', then digits with at most one '.' and at most one
\* exponent mark, the '.' before the mark, a sign only right after the mark
IsFloatToken(s) ==
    LET body == IF s # <<>> /\ s[1] = ord["-"] THEN Tail(s) ELSE s
        dots == {i \in 1..Len(body) : body[i] = ord["."]}
        marks == {i \in 1..Len(body) : body[i] \in {ord["e"], ord["E"]}}
        signs == {i \in 1..Len(body) : body[i] \in {ord["+"], ord["-"]}}
    IN  /\ s # <<>>
        /\ s[1] \in (48..57) \cup {ord["-"]}
        /\ \A i \in 1..Len(body) :
               body[i] \in (48..57) \cup {ord["."], ord["e"], ord["E"], ord["+"], ord["-"]}
        /\ Cardinality(dots) <= 1
        /\ Cardinality(marks) <= 1
        /\ dots \cup marks # {}
        /\ \A d \in dots, m \in marks : d < m
        /\ \A i \in signs : (i - 1) \in marks

\* The result is the Decimal that compares equal to the one constructed from
\* the text s
IsDecimalOf(r, s) ==
    /\ r.ok
    /\ r.val.type = "Object" /\ r.val.class = "BigNumber"
    /\ BigNumberNew(s, 10).ok
    /\ ComparedTo(r.val.dec, BigNumberNew(s, 10).val) = 0

(* C3: a number token scanned with a '.' or an exponent mark: with          *)
(* parse_float_as_big it parses to the Decimal that compares equal to the   *)
(* Decimal constructed from the token's text when that construction         *)
(* succeeds, and the parse fails with an invalid-argument error when it     *)
(* does not; without the flag it parses to a Number of the double's value   *)
(* when the token is a finite double ("1.5" gives 1.5) and to null          *)
(* otherwise ("1e309", "1e"), without failing.  An integer literal parses   *)
(* to the same value whatever parse_float_as_big is.                        *)
C3_FloatLiterals ==
    pc = "parsed" =>
        /\ (IsFloatToken(input) /\ opts.parse_float_as_big /\ BigNumberNew(input, 10).ok) =>
               IsDecimalOf(result, input)
        /\ (IsFloatToken(input) /\ opts.parse_float_as_big /\ ~BigNumberNew(input, 10).ok) =>
               ~result.ok /\ result.err.status = "InvalidArg"
        /\ (IsFloatToken(input) /\ ~opts.parse_float_as_big) =>
               IF ParseF64(input).ok /\ ~ParseF64(input).val.inf
               THEN result = Ok([type |-> "Number", made |-> "double", dbl |-> ParseF64(input).val])
               ELSE result = Ok([type |-> "Null"])
        /\ (input = Txt(<<"1", ".", "5">>) /\ ~opts.parse_float_as_big) =>
               /\ result.ok /\ result.val.type = "Number"
               /\ result.val.dbl.digits = <<1, 5>> /\ result.val.dbl.point = 1
        /\ (input \in {Txt(<<"1", "e", "3", "0", "9">>), Txt(<<"1", "e">>)}
                /\ ~opts.parse_float_as_big) =>
               result = Ok([type |-> "Null"])
        /\ IsIntegerLiteral(input) =>
               result = Parse(input, [opts EXCEPT !.parse_float_as_big = ~@])

\* "1e309" was parsed to null without parse_float_as_big
C3_Witness ==
    /\ pc = "parsed"
    /\ ~opts.parse_float_as_big
    /\ input = Txt(<<"1", "e", "3", "0", "9">>)
    /\ result = Ok([type |-> "Null"])

\* C3 as stated: with parse_float_as_big every such token parses to a Decimal
C3_AlwaysDecimal ==
    (pc = "parsed" /\ IsFloatToken(input) /\ opts.parse_float_as_big) =>
        IsDecimalOf(result, input)

----------------------------------------------------------------------------
(* SpecValue: value graphs the caller builds, stringified and parsed back   *)

MaxBuild == 3

SampleStrings ==
    { <<>>, Txt(<<"a">>), Txt(<<"\"", "\\", "\n">>), <<0, 31, 8>>, <<233, 128512, ord["/"]>> }

SampleIntegers ==
    { BigOfInt(0), BigOfInt(-7), MkBigInt(FALSE, SafeMaxMag), MkBigInt(TRUE, SafeMaxMag) }

SampleDecimalTexts ==
    { Txt(<<"0">>), Txt(<<"1", ".", "5">>), Txt(<<"1", "0", "0">>),
      Txt(<<"-", "0", ".", "0", "1">>), Txt(<<"1", "e", "5">>) }

SampleDecimals == {BigNumberNew(t, 10).val : t \in SampleDecimalTexts}

SampleKeys == {Txt(<<"a">>), Txt(<<"\"", "\n">>)}

Leaves ==
    {JsNull, JsBoolean(TRUE), JsBoolean(FALSE), CreateArray, CreateObject}
    \cup {JsString(t) : t \in SampleStrings}
    \cup {JsInt64(i) : i \in SampleIntegers}
    \cup {JsBigNumber(d) : d \in SampleDecimals}

BuildLeaves ==
    {JsNull, JsString(Txt(<<"\"", "\\", "\n">>)), JsBigNumber(BigNumberNew(Txt(<<"1", ".", "5">>), 10).val)}

\* The caller puts the value into a new array
WrapInArray ==
    /\ pc = "value"
    /\ parts < MaxBuild
    /\ value' = ArraySet(CreateArray, value)
    /\ parts' = parts + 1
    /\ UNCHANGED <<input, opts, result, output, da, db, dc, dres, dcmp, pc>>

\* The caller appends an element to the array
AppendElement ==
    /\ pc = "value"
    /\ parts < MaxBuild
    /\ IsArray(value)
    /\ \E a \in BuildLeaves : value' = ArraySet(value, a)
    /\ parts' = parts + 1
    /\ UNCHANGED <<input, opts, result, output, da, db, dc, dres, dcmp, pc>>

\* The caller puts the value into a new object
WrapInObject ==
    /\ pc = "value"
    /\ parts < MaxBuild
    /\ \E k \in SampleKeys : value' = SetNamedProperty(CreateObject, k, value)
    /\ parts' = parts + 1
    /\ UNCHANGED <<input, opts, result, output, da, db, dc, dres, dcmp, pc>>

\* The caller sets a property of the object
SetMember ==
    /\ pc = "value"
    /\ parts < MaxBuild
    /\ IsPlainObject(value)
    /\ \E k \in SampleKeys, a \in BuildLeaves : value' = SetNamedProperty(value, k, a)
    /\ parts' = parts + 1
    /\ UNCHANGED <<input, opts, result, output, da, db, dc, dres, dcmp, pc>>

\* The start of a specification that stringifies a value.
ValueInit(values, options) ==
    /\ value \in values
    /\ opts \in options
    /\ parts = 0
    /\ input = None /\ result = None /\ output = None
    /\ NoDecimals
    /\ pc = "value"

InitValue == ValueInit(Leaves, {DefaultOptions, [DefaultOptions EXCEPT !.always_parse_as_big = TRUE]})

NextValue ==
    \/ WrapInArray
    \/ AppendElement
    \/ WrapInObject
    \/ SetMember
    \/ CallStringify
    \/ ParseOutput

SpecValue == InitValue /\ [][NextValue]_vars

\* A value graph of null, booleans, strings, safe integers, arrays and objects
RECURSIVE IsPlainValue(_)
IsPlainValue(v) ==
    \/ v.type \in {"Null", "Boolean", "String"}
    \/ v.type = "Number" /\ v.made = "int64"
    \/ v.type = "Object" /\ v.class = "Array"
           /\ \A i \in 1..Len(v.elems) : IsPlainValue(v.elems[i])
    \/ v.type = "Object" /\ v.class = "Object"
           /\ \A i \in 1..Len(v.vals) : IsPlainValue(v.vals[i])

----------------------------------------------------------------------------
(* SpecEscape: strings and object keys of every kind of character,          *)
(* stringified                                                              *)

MaxStringLen == 2

\* Every control character, and characters of the other kinds: '"', '\', '/',
\* a letter, DEL, and characters of two, three and four UTF-8 bytes
EscapeSamples == (0..31) \cup {34, 92, 47, 97, 127, 233, 8232, 65535, 65536, 128512, 1114111}

MixedChars == {34, 92, 10, 1, 97, 128512}

EscapeStrings == {<<c>> : c \in EscapeSamples} \cup BoundedSeq(MixedChars, MaxStringLen)

InitEscape ==
    ValueInit({JsString(t) : t \in EscapeStrings}
                  \cup {SetNamedProperty(CreateObject, t, JsNull) : t \in EscapeStrings},
              {DefaultOptions})

NextEscape == CallStringify \/ ParseOutput

SpecEscape == InitEscape /\ [][NextEscape]_vars

UpperHex == <<48, 49, 50, 51, 52, 53, 54, 55, 56, 57, 65, 66, 67, 68, 69, 70>>

\* The text stringify is to write for the character c
EscapeOf(c) ==
    CASE c = 34 -> <<92, 34>>
      [] c = 92 -> <<92, 92>>
      [] c = 10 -> <<92, 110>>
      [] c = 13 -> <<92, 114>>
      [] c = 9 -> <<92, 116>>
      [] c = 8 -> <<92, 98>>
      [] c = 12 -> <<92, 102>>
      [] c \in (0..31) \ {8, 9, 10, 12, 13} ->
             <<92, 117, 48, 48, UpperHex[(c \div 16) + 1], UpperHex[(c % 16) + 1]>>
      [] OTHER -> <<c>>

Quoted(t) == <<34>> \o Concat([i \in 1..Len(t) |-> EscapeOf(t[i])]) \o <<34>>

(* C5: stringify writes a string as '"', its characters escaped, '"': '"'   *)
(* as \", '\' as \\, newline, carriage return, tab, 0x08 and 0x0C as \n \r  *)
(* \t \b \f, any other character below 0x20 as \u and the four (upper-case) *)
(* hex digits of its code, every other character as itself; an object key   *)
(* is written by the same rule.                                             *)
C5_StringEscapes ==
    pc = "stringified" =>
        /\ value.type = "String" => output = Quoted(value.s)
        /\ value.type = "Object" =>
               output = <<123>> \o Quoted(value.keys[1]) \o <<58, 110, 117, 108, 108, 125>>
        /\ value = [type |-> "String", s |-> <<34, 92, 10>>] =>
               output = <<34, 92, 34, 92, 92, 92, 110, 34>>
        /\ value = [type |-> "String", s |-> <<1>>] =>
               output = <<34, 92, 117, 48, 48, 48, 49, 34>>

\* The string of the character 0x1F was written as "\u001F"
C5_Witness ==
    /\ pc = "stringified"
    /\ value = [type |-> "String", s |-> <<31>>]
    /\ output = <<34, 92, 117, 48, 48, 49, 70, 34>>

----------------------------------------------------------------------------
(* SpecObject: object literals with repeated keys and array-index keys      *)

MaxMembers == 3

ObjectKeys == {Txt(<<"a">>), Txt(<<"b">>), Txt(<<"1">>), Txt(<<"2">>), Txt(<<"0", "1">>)}

MemberValues == {Txt(<<"1">>), Txt(<<"2">>), Txt(<<"3">>)}

\* "key":value
MemberText(m) == <<34>> \o m[1] \o <<34, 58>> \o m[2]

\* The members, ',' between them, in braces
ObjectText(ms) ==
    <<123>> \o Concat([i \in 1..Len(ms) |-> (IF i > 1 THEN <<44>> ELSE <<>>) \o MemberText(ms[i])])
            \o <<125>>

InitObject ==
    /\ parts \in BoundedSeq(ObjectKeys \X MemberValues, MaxMembers)
    /\ input = ObjectText(parts)
    /\ opts = DefaultOptions
    /\ result = None /\ value = None /\ output = None
    /\ NoDecimals
    /\ pc = "text"

SpecObject == InitObject /\ [][Next]_vars

MemberKeys == {parts[i][1] : i \in 1..Len(parts)}

\* The positions of the first and of the last member with the key k
FirstAt(k) ==
    CHOOSE i \in 1..Len(parts) : parts[i][1] = k /\ \A j \in 1..(i - 1) : parts[j][1] # k
LastAt(k) ==
    CHOOSE i \in 1..Len(parts) : parts[i][1] = k /\ \A j \in (i + 1)..Len(parts) : parts[j][1] # k

\* The canonical decimal text of a small integer: what the host takes for an
\* array index
IsIndexKey(k) ==
    /\ Len(k) \in 1..9
    /\ \A i \in 1..Len(k) : k[i] \in 48..57
    /\ (Len(k) > 1 => k[1] # 48)

IndexOfKey(k) == DigitsNat([i \in 1..Len(k) |-> k[i] - 48])

\* The order of two different keys in the enumeration of an object: index
\* keys first, by their number, then the other keys by first occurrence
EnumeratesBefore(k1, k2) ==
    IF IsIndexKey(k1) /\ IsIndexKey(k2) THEN IndexOfKey(k1) < IndexOfKey(k2)
    ELSE IF IsIndexKey(k1) \/ IsIndexKey(k2) THEN IsIndexKey(k1)
    ELSE FirstAt(k1) < FirstAt(k2)

\* Each key of the text is held once, with the value of its last occurrence
HoldsLastValues(obj) ==
    /\ Len(obj.keys) = Cardinality(MemberKeys)
    /\ {obj.keys[i] : i \in 1..Len(obj.keys)} = MemberKeys
    /\ \A i \in 1..Len(obj.keys) :
           obj.vals[i] = [type |-> "Number", made |-> "int64",
                          int |-> [neg |-> FALSE, mag |-> <<parts[LastAt(obj.keys[i])][2][1] - 48>>]]

----------------------------------------------------------------------------
(* SpecDecimal: three Decimals constructed from text, the first two added   *)
(* and the sum compared with the third                                      *)

MaxCoeff == 3

DecimalScales == {0, 1}

ZeroPads == {0, 1, 2}

\* <<c, s, z>>: the number c / 10^s, written with z more zeros after it
DecimalShapes == (-MaxCoeff..MaxCoeff) \X DecimalScales \X ZeroPads

\* <<1, 1, 0>> is "0.1", <<-3, 0, 2>> is "-3.00", <<0, 1, 1>> is "0.00"
DecimalText(sh) ==
    LET frac == sh[2] + sh[3]
        coeff == NatDigits(IF sh[1] < 0 THEN -sh[1] ELSE sh[1]) \o [i \in 1..sh[3] |-> 0]
        all == PadLeft(coeff, MaxOf(Len(coeff), frac + 1))
    IN  (IF sh[1] < 0 THEN <<ord["-"]>> ELSE <<>>)
        \o DigitsText(SubSeq(all, 1, Len(all) - frac))
        \o (IF frac > 0 THEN <<ord["."]>> \o DigitsText(SubSeq(all, Len(all) - frac + 1, Len(all)))
            ELSE <<>>)

\* new BigNumber(text) for a text of the model
DecimalOf(sh) == BigNumberNew(DecimalText(sh), 10).val

InitDecimal ==
    /\ parts \in DecimalShapes \X DecimalShapes \X DecimalShapes
    /\ da = DecimalOf(parts[1])
    /\ db = DecimalOf(parts[2])
    /\ dc = DecimalOf(parts[3])
    /\ dres = None /\ dcmp = None
    /\ input = None /\ opts = None /\ result = None /\ value = None /\ output = None
    /\ pc = "decimals"

\* a.plus(b)
DoPlus ==
    /\ pc = "decimals"
    /\ dres' = Plus(da, db)
    /\ pc' = "added"
    /\ UNCHANGED <<input, opts, parts, result, value, output, da, db, dc, dcmp>>

\* sum.comparedTo(c)
DoComparedTo ==
    /\ pc = "added"
    /\ dcmp' = ComparedTo(dres, dc)
    /\ pc' = "compared"
    /\ UNCHANGED <<input, opts, parts, result, value, output, da, db, dc, dres>>

NextDecimal == DoPlus \/ DoComparedTo

SpecDecimal == InitDecimal /\ [][NextDecimal]_vars

\* The number of a shape in units of 1/10, the smallest unit of the shapes
Tenths(sh) == IF sh[2] = 1 THEN sh[1] ELSE 10 * sh[1]

(* C7: for Decimals a, b, c constructed from text, comparedTo(plus(a, b),   *)
(* c) is 0 exactly when a + b = c as numbers (0.1 + 0.2 against 0.3, 1.0    *)
(* against 1.00), -1 when a + b < c and 1 when a + b > c, whatever the      *)
(* scales the texts were written with; plus leaves a and b as constructed.  *)
C7_ExactAdditionAndComparison ==
    /\ pc = "compared" =>
           dcmp = (IF Tenths(parts[1]) + Tenths(parts[2]) = Tenths(parts[3]) THEN 0
                   ELSE IF Tenths(parts[1]) + Tenths(parts[2]) < Tenths(parts[3]) THEN -1
                   ELSE 1)
    /\ pc \in {"added", "compared"} =>
           /\ da = BigNumberNew(DecimalText(parts[1]), 10).val
           /\ db = BigNumberNew(DecimalText(parts[2]), 10).val

\* 0.1 + 0.2 was compared with 0.30 and found equal
C7_Witness ==
    /\ pc = "compared"
    /\ parts = <<<<1, 1, 0>>, <<2, 1, 0>>, <<3, 1, 1>>>>
    /\ dres.scale # dc.scale
    /\ dcmp = 0

----------------------------------------------------------------------------
(* SpecDivide: two Decimals constructed from text, the first divided to an  *)
(* integer by the second                                                    *)

MaxDividend == 10

MaxDivisor == 4

DividendShapes == (-MaxDividend..MaxDividend) \X DecimalScales \X {0}

DivisorShapes == (-MaxDivisor..MaxDivisor) \X DecimalScales \X {0}

InitDivide ==
    /\ parts \in DividendShapes \X DivisorShapes
    /\ da = DecimalOf(parts[1])
    /\ db = DecimalOf(parts[2])
    /\ dc = None /\ dres = None /\ dcmp = None
    /\ input = None /\ opts = None /\ result = None /\ value = None /\ output = None
    /\ pc = "decimals"

\* a.idiv(b): the division panics on a zero divisor
DoIdiv ==
    /\ pc = "decimals"
    /\ IF BigIsZero(db.int)
       THEN pc' = "panicked" /\ dres' = dres
       ELSE pc' = "divided" /\ \E mode \in RoundingModes : dres' = Idiv(da, db, mode)
    /\ UNCHANGED <<input, opts, parts, result, value, output, da, db, dc, dcmp>>

NextDivide == DoIdiv

SpecDivide == InitDivide /\ [][NextDivide]_vars

\* a / b for the shapes a and b is Numerator / Denominator, Denominator > 0
Numerator(a, b) ==
    (IF b[1] < 0 THEN -1 ELSE 1) * a[1] * (IF b[2] = 1 THEN 10 ELSE 1)
Denominator(a, b) ==
    (IF b[1] < 0 THEN -b[1] ELSE b[1]) * (IF a[2] = 1 THEN 10 ELSE 1)

\* The integer quotient of n by d > 0: rounded down, or towards zero
IntegerQuotients(n, d) ==
    {n \div d, IF n < 0 THEN -((-n) \div d) ELSE n \div d}

(* C8: for Decimals a and b with b non-zero, idiv(a, b) is an               *)
(* integer-valued Decimal equal to the integer quotient of a by b (10 idiv  *)
(* 3 is 3).                                                                 *)
C8_IdivIsIntegerDivision ==
    pc = "divided" =>
        /\ dres.scale = 0
        /\ IntOfBig(dres.int) \in
               IntegerQuotients(Numerator(parts[1], parts[2]), Denominator(parts[1], parts[2]))

\* 7 idiv 2 gave 4
C8_Witness ==
    /\ pc = "divided"
    /\ parts = <<<<7, 0, 0>>, <<2, 0, 0>>>>
    /\ dres = [int |-> [neg |-> FALSE, mag |-> <<4>>], scale |-> 0]

----------------------------------------------------------------------------
(* Decimals in value graphs (SpecValue) *)

IsDecimalValue(v) == v.type = "Object" /\ v.class = "BigNumber"

\* The text of a leaf of the graphs of SpecValue that is a Decimal, null or a
\* string: a Decimal is written as its toString gives it
LeafText(v) ==
    IF IsDecimalValue(v) THEN ToStringJs(v.dec)
    ELSE IF v.type = "String" THEN Quoted(v.s)
    ELSE <<110, 117, 108, 108>>

IsFlatLeaf(v) == IsDecimalValue(v) \/ v.type \in {"String", "Null"}

\* An optional '-', a digit, optionally '.' and digits, 'e', an optional '-',
\* digits
IsScientific(t) ==
    \E e \in 2..(Len(t) - 1) :
        LET m == IF t[1] = 45 THEN SubSeq(t, 2, e - 1) ELSE SubSeq(t, 1, e - 1)
            x == IF t[e + 1] = 45 THEN SubSeq(t, e + 2, Len(t)) ELSE SubSeq(t, e + 1, Len(t))
        IN  /\ t[e] = 101
            /\ m # <<>> /\ m[1] \in 48..57
            /\ (Len(m) > 1 => (Len(m) > 2 /\ m[2] = 46 /\ \A i \in 3..Len(m) : m[i] \in 48..57))
            /\ x # <<>> /\ \A i \in 1..Len(x) : x[i] \in 48..57

\* The scientific notation of the sample Decimals
SampleDecimalForms ==
    { <<Txt(<<"0">>), Txt(<<"0", "e", "0">>)>>,
      <<Txt(<<"1", ".", "5">>), Txt(<<"1", ".", "5", "e", "0">>)>>,
      <<Txt(<<"1", "0", "0">>), Txt(<<"1", ".", "0", "0", "e", "2">>)>>,
      <<Txt(<<"-", "0", ".", "0", "1">>), Txt(<<"-", "1", "e", "-", "2">>)>>,
      <<Txt(<<"1", "e", "5">>), Txt(<<"1", "e", "5">>)>> }

(* C9: stringify writes a Decimal, at the top level, as an array element    *)
(* or as a property value, as a bare literal: the text of its scientific    *)
(* notation, which is what its toString returns and what its toJSON wraps   *)
(* (1.5 is written 1.5e0); a Decimal is never written as an array or as an  *)
(* object with properties.                                                  *)
C9_DecimalLiteral ==
    pc = "stringified" =>
        /\ IsDecimalValue(value) =>
               /\ output = ToStringJs(value.dec)
               /\ output = ToJson(value.dec).rawJSON
               /\ IsScientific(output)
               /\ \A f \in SampleDecimalForms :
                      value.dec = BigNumberNew(f[1], 10).val => output = f[2]
        /\ (value.type = "Object" /\ value.class = "Array"
                /\ \A i \in 1..Len(value.elems) : IsFlatLeaf(value.elems[i])) =>
               output = <<91>> \o Concat([i \in 1..Len(value.elems) |->
                                (IF i > 1 THEN <<44>> ELSE <<>>) \o LeafText(value.elems[i])])
                             \o <<93>>
        /\ (value.type = "Object" /\ value.class = "Object"
                /\ \A i \in 1..Len(value.vals) : IsFlatLeaf(value.vals[i])) =>
               output = <<123>> \o Concat([i \in 1..Len(value.keys) |->
                                (IF i > 1 THEN <<44>> ELSE <<>>) \o Quoted(value.keys[i])
                                    \o <<58>> \o LeafText(value.vals[i])])
                              \o <<125>>

\* The object with the Decimals 100 and 1.5 was written as {"a":1.00e2,"\"\n":1.5e0}
C9_Witness ==
    /\ pc = "stringified"
    /\ value.type = "Object" /\ value.class = "Object"
    /\ value.keys = <<Txt(<<"a">>), Txt(<<"\"", "\n">>)>>
    /\ output = Txt(<<"{", "\"", "a", "\"", ":", "1", ".", "0", "0", "e", "2", ",",
                      "\"", "\\", "\"", "\\", "n", "\"", ":", "1", ".", "5", "e", "0", "}">>)

----------------------------------------------------------------------------
(* SpecString: string literals made of characters and escapes, closed or    *)
(* cut short                                                                *)

MaxChunks == 2

\* <<the character after the backslash, the character of the escape>>
SimpleEscapes ==
    {<<34, 34>>, <<92, 92>>, <<47, 47>>, <<98, 8>>, <<102, 12>>, <<110, 10>>, <<114, 13>>, <<116, 9>>}

PlainChunks == {<<97>>, <<47>>, <<233>>}

EscapeChunks == {<<92, e[1]>> : e \in SimpleEscapes}

\* a backslash and a character that is no escape: 'a', 'x', '0', 'U', ' '
BadEscapeChunks == {<<92, c>> : c \in {97, 120, 48, 85, 32}}

\* A
UnicodeChunks == {<<92, 117, 48, 48, 52, 49>>}

Chunks == PlainChunks \cup EscapeChunks \cup BadEscapeChunks \cup UnicodeChunks

\* The closing quote, or an end of input before it: at once, after a
\* backslash, or with fewer than four characters after \u
Endings ==
    { <<34>>, <<>>, <<92>>, <<92, 117>>, <<92, 117, 48>>, <<92, 117, 48, 48, 52>>,
      <<92, 117, 48, 48, 34>> }

InitString ==
    /\ parts \in BoundedSeq(Chunks, MaxChunks) \X Endings
    /\ input = <<34>> \o Concat(parts[1]) \o parts[2]
    /\ opts = DefaultOptions
    /\ result = None /\ value = None /\ output = None
    /\ NoDecimals
    /\ pc = "text"

SpecString == InitString /\ [][Next]_vars

\* The characters a chunk that is no bad escape stands for
DecodedChunk(ch) ==
    IF ch \in PlainChunks THEN ch
    ELSE IF ch \in UnicodeChunks THEN <<65>>
    ELSE <<(CHOOSE e \in SimpleEscapes : e[1] = ch[2])[2]>>

BadChunks == {i \in 1..Len(parts[1]) : parts[1][i] \in BadEscapeChunks}

FirstBadChunk == parts[1][CHOOSE i \in BadChunks : \A j \in BadChunks : i <= j]

(* C10: after the opening '"', each escape \" \\ \/ \b \f \n \r \t stands   *)
(* for its one character; a backslash before any other character c (not    *)
(* 'u') fails the parse with InvalidEscapeSequence(c); an end of input      *)
(* before the closing '"' (in the string, after a backslash, or with fewer  *)
(* than four characters after \u) fails it with UnexpectedEndOfInput; a     *)
(* failed parse returns no string.                                          *)
C10_StringScanning ==
    pc = "parsed" =>
        /\ (BadChunks = {} /\ parts[2] = <<34>>) =>
               result = Ok([type |-> "String",
                            s |-> Concat([i \in 1..Len(parts[1]) |-> DecodedChunk(parts[1][i])])])
        /\ (BadChunks = {} /\ parts[2] # <<34>>) =>
               /\ Failed(result, "UnexpectedEndOfInput")
               /\ result.err.cause = [kind |-> "UnexpectedEndOfInput", ch |-> -1]
        /\ BadChunks # {} =>
               /\ Failed(result, "InvalidEscapeSequence")
               /\ result.err.cause = [kind |-> "InvalidEscapeSequence", ch |-> FirstBadChunk[2]]
        /\ ~result.ok => DOMAIN result = {"ok", "err"}

\* "\/\x" was parsed and failed with InvalidEscapeSequence('x')
C10_Witness ==
    /\ pc = "parsed"
    /\ input = <<34, 92, 47, 92, 120, 34>>
    /\ ~result.ok
    /\ result.err.cause = [kind |-> "InvalidEscapeSequence", ch |-> 120]

----------------------------------------------------------------------------
(* SpecUnicode: string literals with one \u escape, the four characters     *)
(* after the 'u' drawn from hex digits, signs and other characters          *)

MaxAround == 1

\* The characters at each of the four places after \u: '0' 'D' 'd' 'E' '+'
\* '-' ' ' 'g'; '0' '7' '8' 'B' 'C' 'F' 'b' '+' 'G'; '0' '4' 'F' 'f' '-' ' ';
\* '1' '0' 'F' 'g' '+'
QuadChars ==
    << {48, 68, 100, 69, 43, 45, 32, 103},
       {48, 55, 56, 66, 67, 70, 98, 43, 71},
       {48, 52, 70, 102, 45, 32},
       {49, 48, 70, 103, 43} >>

Quads ==
    { <<a, b, c, d>> : a \in QuadChars[1], b \in QuadChars[2], c \in QuadChars[3],
                       d \in QuadChars[4] }

\* What follows the escape: nothing, plain characters, or the escape \uDC00
AfterQuad == BoundedSeq({97}, MaxAround) \cup {<<92, 117, 68, 67, 48, 48>>}

\* <<the characters before the escape, the four after \u, what follows>>
UnicodePieces == BoundedSeq({97}, MaxAround) \X Quads \X AfterQuad

InitUnicode ==
    /\ parts \in UnicodePieces
    /\ input = <<34>> \o parts[1] \o <<92, 117>> \o parts[2] \o parts[3] \o <<34>>
    /\ opts = DefaultOptions
    /\ result = None /\ value = None /\ output = None
    /\ NoDecimals
    /\ pc = "text"

SpecUnicode == InitUnicode /\ [][Next]_vars

IsHexQuad(q) == \A i \in 1..4 : q[i] \in (48..57) \cup (65..70) \cup (97..102)

HexDigitValue(c) == IF c <= 57 THEN c - 48 ELSE IF c <= 70 THEN c - 55 ELSE c - 87

\* The number a quad of hex digits writes
QuadCode(q) ==
    4096 * HexDigitValue(q[1]) + 256 * HexDigitValue(q[2]) + 16 * HexDigitValue(q[3])
        + HexDigitValue(q[4])

IsSurrogateCode(n) == n >= 55296 /\ n <= 57343

PlainAfter == parts[3] = <<>> \/ parts[3][1] # 92

(* C11: for every four hex digits XXXX in D800-DFFF, a string with the      *)
(* escape \uXXXX as an unpaired surrogate half (or next to another half)    *)
(* parses, and the string holds that code at the escape's place.            *)
C11_SurrogatesPassThrough ==
    (pc = "parsed" /\ IsHexQuad(parts[2]) /\ IsSurrogateCode(QuadCode(parts[2]))) =>
        /\ result.ok
        /\ result.val.type = "String"
        /\ Len(result.val.s) > Len(parts[1])
        /\ result.val.s[Len(parts[1]) + 1] = QuadCode(parts[2])

\* "\uD840" was parsed and failed with InvalidEscapeSequence('u')
C11_Witness ==
    /\ pc = "parsed"
    /\ input = <<34, 92, 117, 68, 56, 52, 48, 34>>
    /\ ~result.ok
    /\ result.err.cause = [kind |-> "InvalidEscapeSequence", ch |-> 117]

(* C12: a \u escape followed by four hex digits (outside the surrogate      *)
(* range) decodes to the one character with that code; if any of the four   *)
(* characters is not a hex digit ('+', '-', ' ', ...) the parse fails with  *)
(* InvalidEscapeSequence('u').                                              *)
C12_FourHexDigitsOnly ==
    (pc = "parsed" /\ PlainAfter) =>
        /\ (IsHexQuad(parts[2]) /\ ~IsSurrogateCode(QuadCode(parts[2]))) =>
               result = Ok([type |-> "String",
                            s |-> parts[1] \o <<QuadCode(parts[2])>> \o parts[3]])
        /\ ~IsHexQuad(parts[2]) =>
               /\ Failed(result, "InvalidEscapeSequence")
               /\ result.err.cause = [kind |-> "InvalidEscapeSequence", ch |-> 117]

\* "\u+041" was parsed and gave the string "A"
C12_Witness ==
    /\ pc = "parsed"
    /\ input = <<34, 92, 117, 43, 48, 52, 49, 34>>
    /\ result = Ok([type |-> "String", s |-> <<65>>])

============================================================================
